---- MODULE Spec2Model ----
(***************************************************************************)
(* Model of snowflake_entity_mapper.py: main() loads an input sheet of     *)
(* identifier pairs, opens one Snowflake connection, fetches two datasets, *)
(* merges them onto the input rows (create_complete_csv) and writes a CSV. *)
(*                                                                         *)
(* A Python str is a sequence of one-character strings; "sup2" stands for  *)
(* the single character U+00B2 (SUPERSCRIPT TWO).  A cell is a str or NaN. *)
(* A DataFrame is [columns, rows], a row being the sequence of its cells   *)
(* in column order.                                                        *)
(***************************************************************************)
EXTENDS Integers, Sequences, FiniteSets, TLC

VARIABLES pc,            \* position in main()
          input_df,      \* the loaded sheet
          pitchbook_ids, \* main: line 292
          voldemort_ids, \* main: line 293
          conn,          \* main's local variable conn: "None" or "conn"
          session,       \* the remote session: "unopened", "open", "closed"
          conn_log,      \* every call made on the connector, in order
          remote_pb,     \* the cursor's answer to the primary query: <<>> or <<answer>>
          remote_vd,     \* the cursor's answer to the secondary query: <<>> or <<answer>>
          pitchbook_df,  \* main: line 302
          voldemort_df,  \* main: line 305
          result_df,     \* create_complete_csv's result_df
          output_file,   \* the CSV on disk: <<>> or <<a DataFrame>>
          raised,        \* the stage whose exception main caught, or "none"
          success,       \* create_complete_csv's return value, as a string
          exit_code      \* main's return value: <<>> while running

vars == <<pc, input_df, pitchbook_ids, voldemort_ids, conn, session, conn_log,
          remote_pb, remote_vd, pitchbook_df, voldemort_df, result_df,
          output_file, raised, success, exit_code>>

----------------------------------------------------------------------------
(* Bounds of the model: the rows of the sheet, and the records the         *)
(* secondary query returns.                                                *)

MaxRows == 2
MaxRecs == 2

SeqsUpTo(S, n) == UNION {[1..k -> S] : k \in 0..n}

----------------------------------------------------------------------------
(* Python str and pandas cell operations. *)

NaN == <<"<NaN>">>
None == <<"<None>">>

Whitespace == {" ", "\t", "\n"}
DecimalDigits == {"0", "1", "2", "3", "4", "5", "6", "7", "8", "9"}
\* str.isdigit() is also true of digits that int() does not parse.
OtherDigits == {"sup2"}

astype_str(cell) == IF cell = NaN THEN <<"n", "a", "n">> ELSE cell

isna(cell) == cell = NaN

RECURSIVE lstrip(_, _)
lstrip(s, chars) ==
    IF s # <<>> /\ Head(s) \in chars THEN lstrip(Tail(s), chars) ELSE s

RECURSIVE rstrip(_, _)
rstrip(s, chars) ==
    IF s # <<>> /\ s[Len(s)] \in chars
    THEN rstrip(SubSeq(s, 1, Len(s) - 1), chars)
    ELSE s

strip(s) == rstrip(lstrip(s, Whitespace), Whitespace)

IsQuote(c) == c = "'"
NotQuote(c) == ~IsQuote(c)
remove_quotes(s) == SelectSeq(s, NotQuote)

lower_char(c) ==
    CASE c = "N" -> "n"
      [] c = "A" -> "a"
      [] c = "O" -> "o"
      [] c = "E" -> "e"
      [] c = "U" -> "u"
      [] c = "L" -> "l"
      [] OTHER -> c
lower(s) == [i \in DOMAIN s |-> lower_char(s[i])]

isdigit(s) == s # <<>> /\ \A i \in DOMAIN s : s[i] \in DecimalDigits \cup OtherDigits

int_parses(s) == s # <<>> /\ \A i \in DOMAIN s : s[i] \in DecimalDigits

digit_value(c) ==
    CASE c = "0" -> 0 [] c = "1" -> 1 [] c = "2" -> 2 [] c = "3" -> 3
      [] c = "4" -> 4 [] c = "5" -> 5 [] c = "6" -> 6 [] c = "7" -> 7
      [] c = "8" -> 8 [] c = "9" -> 9

digit_char(d) ==
    CASE d = 0 -> "0" [] d = 1 -> "1" [] d = 2 -> "2" [] d = 3 -> "3"
      [] d = 4 -> "4" [] d = 5 -> "5" [] d = 6 -> "6" [] d = 7 -> "7"
      [] d = 8 -> "8" [] d = 9 -> "9"

RECURSIVE int(_)
int(s) == IF s = <<>> THEN 0
          ELSE 10 * int(SubSeq(s, 1, Len(s) - 1)) + digit_value(s[Len(s)])

RECURSIVE str_of_int(_)
str_of_int(n) == IF n < 10 THEN <<digit_char(n)>>
                 ELSE Append(str_of_int(n \div 10), digit_char(n % 10))

startswith(s, p) == Len(s) >= Len(p) /\ SubSeq(s, 1, Len(p)) = p

----------------------------------------------------------------------------
(* DataFrames. *)

EmptyDF == [columns |-> <<>>, rows |-> <<>>]

\* DataFrame.empty: some axis has length 0.
empty(df) == Len(df.columns) = 0 \/ Len(df.rows) = 0

has_column(df, name) == \E i \in DOMAIN df.columns : df.columns[i] = name

column_index(df, name) == CHOOSE i \in DOMAIN df.columns : df.columns[i] = name

\* row.get(name, default) on a row of df.
row_get(df, row, name, default) ==
    IF has_column(df, name) THEN row[column_index(df, name)] ELSE default

COMPANY_ID == <<"C", "O", "M", "P", "A", "N", "Y", "_", "I", "D">>
BQ_ID == <<"B", "Q", "_", "I", "D">>
pitchbook_id == <<"p", "i", "t", "c", "h", "b", "o", "o", "k", "_", "i", "d">>
bq_id == <<"b", "q", "_", "i", "d">>
pb_prefix == <<"p", "b", "_">>
vd_prefix == <<"v", "d", "_">>
NanLike == {<<"n", "a", "n">>, <<"n", "o", "n", "e">>, <<"n", "u", "l", "l">>}

----------------------------------------------------------------------------
(* The inputs the model draws from: sheets, and what the remote returns. *)

A1 == <<"A", "1">>
A2 == <<"A", "2">>

InputRowSet ==
    { <<A1, <<"0", "0", "7">>>>,
      <<A2, <<" ">>>>,
      <<A1, NaN>>,
      <<A2, <<"0", "0">>>>,
      <<A1, <<"sup2">>>>,
      <<A2, <<"N", "'", "a", "n">>>> }

InputTables ==
    {[ncols |-> 2, rows |-> r] : r \in SeqsUpTo(InputRowSet, MaxRows)}
    \cup {[ncols |-> 1, rows |-> r] : r \in SeqsUpTo({<<A1>>}, MaxRows)}

PbColumns == <<COMPANY_ID, <<"N", "A", "M", "E">>>>
PbP == <<A1, <<"p">>>>
PbQ == <<A1, <<"q">>>>
\* The primary result sets tried: no row, one row, two rows under one key.
PbRowLists == { <<>>, <<PbP>>, <<PbP, PbQ>>, <<PbQ, PbP>> }

VdColumns == <<BQ_ID, <<"v", "d", "_", "n">>, <<"v", "d", "_", "v", "d", "_", "m">>>>
VdRecordSet ==
    { << <<"7">>, <<"x">>, <<"x">> >>,
      << <<"7", " ">>, <<"y">>, <<"y">> >>,
      << <<"0">>, <<"x">>, <<"y">> >>,
      << <<>>, <<"y">>, <<"x">> >>,
      << <<"n", "a", "n">>, <<"y">>, <<"y">> >> }

\* A cursor's answer: the query failed, or a description and the fetched rows.
QueryError == [ok |-> FALSE, columns |-> <<>>, rows |-> <<>>]

PbResponses ==
    {[ok |-> TRUE, columns |-> PbColumns, rows |-> r] : r \in PbRowLists}
    \cup {QueryError}

VdResponses ==
    {[ok |-> TRUE, columns |-> VdColumns, rows |-> r] : r \in SeqsUpTo(VdRecordSet, MaxRecs)}
    \cup {QueryError}

----------------------------------------------------------------------------
(* execute_query, get_pitchbook_data, get_voldemort_data. *)

\* The DataFrame execute_query returns for a cursor's answer.
execute_query(resp) ==
    IF resp.ok THEN [columns |-> resp.columns, rows |-> resp.rows] ELSE EmptyDF

PitchbookIdSurvives(id) == id # <<>> /\ strip(id) # <<>>

\* get_pitchbook_data's IN-list, unquoted.
pitchbook_formatted_ids(ids) ==
    LET kept == SelectSeq(ids, PitchbookIdSurvives)
    IN  [i \in DOMAIN kept |-> strip(kept[i])]

VoldemortIdSurvives(id) ==
    id # <<>> /\ strip(id) # <<>> /\ lower(strip(id)) \notin NanLike

\* get_voldemort_data's IN-list, unquoted.
voldemort_formatted_ids(ids) ==
    LET kept == SelectSeq(ids, VoldemortIdSurvives)
    IN  [i \in DOMAIN kept |-> remove_quotes(strip(kept[i]))]

\* (mutant) the column names are left as returned.
strip_vd_prefix_never(col) == col

strip_vd_prefix(col) ==
    IF startswith(col, vd_prefix) THEN SubSeq(col, 4, Len(col)) ELSE col

\* get_voldemort_data's renaming of the result's columns.
rename_voldemort_columns(df) ==
    IF ~empty(df)
    THEN [df EXCEPT !.columns = [i \in DOMAIN df.columns |-> strip_vd_prefix(df.columns[i])]]
    ELSE df

----------------------------------------------------------------------------
(* create_complete_csv. *)

\* (mutant) the first row stored under a key is kept.
dict_insert_keep_first(d, key, row) ==
    [k \in DOMAIN d \cup {key} |-> IF k \in DOMAIN d THEN d[k] ELSE row]

\* dict[key] = row: a later row replaces an earlier one under the same key.
dict_insert(d, key, row) ==
    [k \in DOMAIN d \cup {key} |-> IF k = key THEN row ELSE d[k]]

\* The dict built from the first n rows, row i stored under keys[i].
RECURSIVE build_dict(_, _, _)
build_dict(rows, keys, n) ==
    IF n = 0 THEN [k \in {} |-> <<>>]
    ELSE dict_insert(build_dict(rows, keys, n - 1), keys[n], rows[n])

pb_key(df, row) == astype_str(row_get(df, row, COMPANY_ID, <<>>))

vd_key(df, row) == strip(astype_str(row_get(df, row, BQ_ID, <<>>)))

pb_dict(df) ==
    build_dict(df.rows, [i \in DOMAIN df.rows |-> pb_key(df, df.rows[i])], Len(df.rows))

vd_dict(df) ==
    build_dict(df.rows, [i \in DOMAIN df.rows |-> vd_key(df, df.rows[i])], Len(df.rows))

HasSecondId(row) == ~isna(row[2])
\* (mutant) rows with a missing secondary identifier are dropped.
id_rows_dropna(df) ==
    LET kept == SelectSeq(df.rows, HasSecondId)
    IN  [i \in DOMAIN kept |->
            <<astype_str(kept[i][1]), remove_quotes(astype_str(kept[i][2]))>>]

\* result_df's first two columns, one row per row of the sheet.
id_rows(df) ==
    [i \in DOMAIN df.rows |->
        <<astype_str(df.rows[i][1]), remove_quotes(astype_str(df.rows[i][2]))>>]

prefixed(prefix, df) == [i \in DOMAIN df.columns |-> prefix \o df.columns[i]]

blank_cells(df) == [i \in DOMAIN df.columns |-> <<>>]

\* The pb_ cells of one row of result_df.
pb_cells(df, d, id) == IF id \in DOMAIN d THEN d[id] ELSE blank_cells(df)

\* The three matching strategies, in order; int() is not reached unless the
\* first two fail and isdigit() holds.
matched_id(vd_id, d) ==
    IF vd_id \in DOMAIN d THEN vd_id
    ELSE IF lstrip(vd_id, {"0"}) \in DOMAIN d THEN lstrip(vd_id, {"0"})
    ELSE IF isdigit(vd_id) /\ str_of_int(int(vd_id)) \in DOMAIN d
         THEN str_of_int(int(vd_id))
    ELSE None

\* int(vd_id) raises ValueError.
match_raises(vd_id, d) ==
    /\ vd_id \notin DOMAIN d
    /\ lstrip(vd_id, {"0"}) \notin DOMAIN d
    /\ isdigit(vd_id)
    /\ ~int_parses(vd_id)

\* "if matched_id:".
truthy(m) == m # None /\ m # <<>>

\* The vd_ cells of one row of result_df.
vd_cells(df, d, id) ==
    LET m == matched_id(strip(id), d)
    IN  IF truthy(m) THEN d[m] ELSE blank_cells(df)

merge_raises(sheet, pdf, vdf) ==
    /\ ~empty(vdf)
    /\ LET ids == id_rows(sheet)
           vd == vd_dict(vdf)
       IN  \E i \in DOMAIN ids : match_raises(strip(ids[i][2]), vd)

\* result_df as create_complete_csv hands it to to_csv.
merged(sheet, pdf, vdf) ==
    LET ids == id_rows(sheet)
        pd == pb_dict(pdf)
        vd == vd_dict(vdf)
        pcols == IF empty(pdf) THEN <<>> ELSE prefixed(pb_prefix, pdf)
        vcols == IF empty(vdf) THEN <<>> ELSE prefixed(vd_prefix, vdf)
    IN  [columns |-> <<pitchbook_id, bq_id>> \o pcols \o vcols,
         rows |-> [i \in DOMAIN ids |->
                     ids[i]
                     \o (IF empty(pdf) THEN <<>> ELSE pb_cells(pdf, pd, ids[i][1]))
                     \o (IF empty(vdf) THEN <<>> ELSE vd_cells(vdf, vd, ids[i][2]))]]

----------------------------------------------------------------------------
(* main. *)

column(df, j) == [i \in DOMAIN df.rows |-> df.rows[i][j]]

NotNa(cell) == ~isna(cell)
dropna(cells) == SelectSeq(cells, NotNa)

extract_pitchbook_ids(df) ==
    LET kept == dropna(column(df, 1))
    IN  [i \in DOMAIN kept |-> astype_str(kept[i])]

extract_voldemort_ids(df) ==
    LET kept == dropna(column(df, 2))
    IN  [i \in DOMAIN kept |-> remove_quotes(astype_str(kept[i]))]

too_few_columns(df) == df.ncols < 2

Connect == [op |-> "connect", query |-> "", ids |-> <<>>]
Close == [op |-> "close", query |-> "", ids |-> <<>>]
Execute(q, ids) == [op |-> "execute", query |-> q, ids |-> ids]

\* (mutant) the except clause returns the success status.
failure_status_zero == 1 - 1

\* The value main returns after a failure, and at its end.
failure_status == 1
success_status == 0

Init ==
    /\ pc = "start"
    /\ input_df = <<>>
    /\ pitchbook_ids = <<>>
    /\ voldemort_ids = <<>>
    /\ conn = "None"
    /\ session = "unopened"
    /\ conn_log = <<>>
    /\ remote_pb = <<>>
    /\ remote_vd = <<>>
    /\ pitchbook_df = EmptyDF
    /\ voldemort_df = EmptyDF
    /\ result_df = <<>>
    /\ output_file = <<>>
    /\ raised = "none"
    /\ success = "unset"
    /\ exit_code = <<>>

\* An exception reaches main's except clause from outside the inner try.
Abort(stage) ==
    /\ raised' = stage
    /\ exit_code' = <<failure_status>>
    /\ pc' = "done"

\* load_input_data raises.
LoadFails ==
    /\ pc = "start"
    /\ Abort("load")
    /\ UNCHANGED <<input_df, pitchbook_ids, voldemort_ids, conn, session, conn_log,
                   remote_pb, remote_vd, pitchbook_df, voldemort_df, result_df,
                   output_file, success>>

\* load_input_data returns a sheet; the column check; the identifier lists.
Load ==
    /\ pc = "start"
    /\ \E df \in InputTables :
          /\ input_df' = <<df>>
          /\ IF too_few_columns(df)
             THEN /\ Abort("columns")
                  /\ UNCHANGED <<pitchbook_ids, voldemort_ids>>
             ELSE /\ pitchbook_ids' = extract_pitchbook_ids(df)
                  /\ voldemort_ids' = extract_voldemort_ids(df)
                  /\ pc' = "loaded"
                  /\ UNCHANGED <<raised, exit_code>>
    /\ UNCHANGED <<conn, session, conn_log, remote_pb, remote_vd, pitchbook_df,
                   voldemort_df, result_df, output_file, success>>

\* snowflake.connector.connect raises: no session exists.
ConnectFails ==
    /\ pc = "loaded"
    /\ Abort("connect")
    /\ UNCHANGED <<input_df, pitchbook_ids, voldemort_ids, conn, session, conn_log,
                   remote_pb, remote_vd, pitchbook_df, voldemort_df, result_df,
                   output_file, success>>

\* connect succeeds and the version query raises: connect_to_snowflake
\* re-raises, and main's conn is still None.
VersionCheckFails ==
    /\ pc = "loaded"
    /\ session' = "open"
    /\ conn_log' = conn_log \o <<Connect, Execute("version", <<>>)>>
    /\ Abort("version")
    /\ UNCHANGED <<input_df, pitchbook_ids, voldemort_ids, conn,
                   remote_pb, remote_vd, pitchbook_df, voldemort_df, result_df,
                   output_file, success>>

\* connect_to_snowflake returns the connection.
ConnectToSnowflake ==
    /\ pc = "loaded"
    /\ session' = "open"
    /\ conn_log' = conn_log \o <<Connect, Execute("version", <<>>)>>
    /\ conn' = "conn"
    /\ pc' = "connected"
    /\ UNCHANGED <<input_df, pitchbook_ids, voldemort_ids,
                   remote_pb, remote_vd, pitchbook_df, voldemort_df, result_df,
                   output_file, raised, success, exit_code>>

GetPitchbookData ==
    /\ pc = "connected"
    /\ LET ids == pitchbook_formatted_ids(pitchbook_ids)
       IN  IF pitchbook_ids = <<>> \/ ids = <<>>
           THEN /\ pitchbook_df' = EmptyDF
                /\ UNCHANGED <<conn_log, remote_pb>>
           ELSE \E resp \in PbResponses :
                   /\ conn_log' = Append(conn_log, Execute("pitchbook", ids))
                   /\ remote_pb' = <<resp>>
                   /\ pitchbook_df' = execute_query(resp)
    /\ pc' = "pb_done"
    /\ UNCHANGED <<input_df, pitchbook_ids, voldemort_ids, conn, session,
                   remote_vd, voldemort_df, result_df,
                   output_file, raised, success, exit_code>>

\* (mutant) no table-access test after an empty result.
voldemort_queries_no_count(ids, df) == <<Execute("voldemort", ids)>>

\* The queries get_voldemort_data issues when the bulk lookup returned df.
voldemort_queries(ids, df) ==
    IF empty(df) THEN <<Execute("voldemort", ids), Execute("count", <<>>)>>
    ELSE <<Execute("voldemort", ids)>>

GetVoldemortData ==
    /\ pc = "pb_done"
    /\ LET ids == voldemort_formatted_ids(voldemort_ids)
       IN  IF voldemort_ids = <<>> \/ ids = <<>>
           THEN /\ voldemort_df' = EmptyDF
                /\ UNCHANGED <<conn_log, remote_vd>>
           ELSE \E resp \in VdResponses :
                   /\ conn_log' = conn_log \o voldemort_queries(ids, execute_query(resp))
                   /\ remote_vd' = <<resp>>
                   /\ voldemort_df' = rename_voldemort_columns(execute_query(resp))
    /\ pc' = "vd_done"
    /\ UNCHANGED <<input_df, pitchbook_ids, voldemort_ids, conn, session,
                   remote_pb, pitchbook_df, result_df,
                   output_file, raised, success, exit_code>>

\* create_complete_csv raises while matching.
CreateCsvRaises ==
    /\ pc = "vd_done"
    /\ merge_raises(input_df[1], pitchbook_df, voldemort_df)
    /\ raised' = "merge"
    /\ pc' = "finally"
    /\ UNCHANGED <<input_df, pitchbook_ids, voldemort_ids, conn, session, conn_log,
                   remote_pb, remote_vd, pitchbook_df, voldemort_df, result_df,
                   output_file, success, exit_code>>

\* create_complete_csv builds result_df; to_csv writes it or raises.
CreateCompleteCsv ==
    /\ pc = "vd_done"
    /\ ~merge_raises(input_df[1], pitchbook_df, voldemort_df)
    /\ result_df' = <<merged(input_df[1], pitchbook_df, voldemort_df)>>
    /\ \E written \in BOOLEAN :
          IF written
          THEN output_file' = result_df' /\ success' = "True"
          ELSE output_file' = output_file /\ success' = "False"
    /\ pc' = "finally"
    /\ UNCHANGED <<input_df, pitchbook_ids, voldemort_ids, conn, session, conn_log,
                   remote_pb, remote_vd, pitchbook_df, voldemort_df,
                   raised, exit_code>>

\* The finally clause, then main's return.
Finally ==
    /\ pc = "finally"
    /\ IF conn # "None"
       THEN session' = "closed" /\ conn_log' = Append(conn_log, Close)
       ELSE UNCHANGED <<session, conn_log>>
    /\ exit_code' = IF raised # "none" \/ success # "True"
                    THEN <<failure_status>> ELSE <<success_status>>
    /\ pc' = "done"
    /\ UNCHANGED <<input_df, pitchbook_ids, voldemort_ids, conn,
                   remote_pb, remote_vd, pitchbook_df, voldemort_df, result_df,
                   output_file, raised, success>>

Next ==
    \/ LoadFails
    \/ Load
    \/ ConnectFails
    \/ VersionCheckFails
    \/ ConnectToSnowflake
    \/ GetPitchbookData
    \/ GetVoldemortData
    \/ CreateCsvRaises
    \/ CreateCompleteCsv
    \/ Finally

Spec == Init /\ [][Next]_vars

----------------------------------------------------------------------------
(* Vocabulary of the properties. *)

Blank == <<>>

Max(S) == CHOOSE x \in S : \A y \in S : y <= x
Min(S) == CHOOSE x \in S : \A y \in S : x <= y

Sheet == input_df[1]
Result == result_df[1]

\* create_complete_csv built its table.
Merged == result_df # <<>>

\* main got as far as calling create_complete_csv.
MergeCalled == pc \in {"finally", "done"} /\ conn = "conn"

PbWidth == IF empty(pitchbook_df) THEN 0 ELSE Len(pitchbook_df.columns)
PbPart(row) == SubSeq(row, 3, 2 + PbWidth)
VdPart(row) == SubSeq(row, 3 + PbWidth, Len(row))

\* The last record of df stored under key k.
LastPb(k) ==
    pitchbook_df.rows[Max({i \in DOMAIN pitchbook_df.rows :
                              pb_key(pitchbook_df, pitchbook_df.rows[i]) = k})]
LastVd(k) ==
    voldemort_df.rows[Max({i \in DOMAIN voldemort_df.rows :
                              vd_key(voldemort_df, voldemort_df.rows[i]) = k})]

PbKeys == {pb_key(pitchbook_df, pitchbook_df.rows[i]) : i \in DOMAIN pitchbook_df.rows}
VdKeys == {vd_key(voldemort_df, voldemort_df.rows[i]) : i \in DOMAIN voldemort_df.rows}

\* The kinds of the queries executed on the connection, in order.
IsExecute(e) == e.op = "execute"
Queries == LET ex == SelectSeq(conn_log, IsExecute) IN [i \in DOMAIN ex |-> ex[i].query]

\* The IN-lists of the secondary bulk lookups.
IsVoldemortQuery(e) == e.op = "execute" /\ e.query = "voldemort"
VoldemortInLists ==
    LET ex == SelectSeq(conn_log, IsVoldemortQuery) IN {ex[i].ids : i \in DOMAIN ex}

\* An identifier that is empty, whitespace-only or nan/none/null in any case.
NoIdentifier(s) == strip(s) = <<>> \/ lower(strip(s)) \in NanLike

----------------------------------------------------------------------------
ChainKeys(id) ==
    <<id, lstrip(id, {"0"})>>
    \o (IF int_parses(id) THEN <<str_of_int(int(id))>> ELSE <<>>)

(* C2: once create_complete_csv has been called with a non-empty secondary  *)
(* dataset, every row with a non-blank trimmed identifier carries the       *)
(* record stored under the first of the three keys present in the map, and  *)
(* blank secondary cells when none of the keys is present.                  *)
C2_FallbackChain ==
    (MergeCalled /\ ~empty(voldemort_df)) =>
       /\ Merged
       /\ \A i \in DOMAIN Result.rows :
             LET id == strip(Result.rows[i][2])
                 tries == ChainKeys(id)
                 present == {j \in DOMAIN tries : tries[j] \in VdKeys}
             IN  id # <<>> =>
                    VdPart(Result.rows[i]) =
                       IF present = {} THEN blank_cells(voldemort_df)
                       ELSE LastVd(tries[Min(present)])

(* C3: no identifier that is empty, whitespace-only or nan/none/null is in  *)
(* the IN-list of the secondary query, and the vd_ cells of its row are     *)
(* empty strings whatever the secondary dataset holds.                      *)
C3_NoIdentifierNoData ==
    (input_df # <<>> /\ Sheet.ncols >= 2) =>
       \A i \in DOMAIN Sheet.rows :
          LET id == astype_str(Sheet.rows[i][2])
          IN  NoIdentifier(id) =>
                 /\ \A ids \in VoldemortInLists :
                       \A j \in DOMAIN ids : ids[j] # id /\ ids[j] # strip(id)
                 /\ Merged =>
                       \A c \in DOMAIN Result.columns :
                          startswith(Result.columns[c], vd_prefix)
                             => Result.rows[i][c] = Blank

\* The first half of C3 alone: what get_voldemort_data leaves out of the query.
C3_QueryLeavesOutNoIdentifier ==
    (input_df # <<>> /\ Sheet.ncols >= 2) =>
       \A i \in DOMAIN Sheet.rows :
          LET id == astype_str(Sheet.rows[i][2])
          IN  NoIdentifier(id) =>
                 \A ids \in VoldemortInLists :
                    \A j \in DOMAIN ids : ids[j] # id /\ ids[j] # strip(id)

(* C4: when the primary query returned a result set with no rows, every     *)
(* column of that result set is in the output under the pb_ prefix and      *)
(* holds the empty string in every row.                                     *)
C4_EmptyPrimaryColumns ==
    (Merged /\ remote_pb # <<>> /\ remote_pb[1].ok /\ remote_pb[1].rows = <<>>) =>
       \A k \in DOMAIN remote_pb[1].columns :
          \E c \in DOMAIN Result.columns :
             /\ Result.columns[c] = pb_prefix \o remote_pb[1].columns[k]
             /\ \A i \in DOMAIN Result.rows : Result.rows[i][c] = Blank

\* The column names the secondary query returned, when it returned rows.
VdReturnedColumns ==
    IF remote_vd # <<>> /\ ~empty(execute_query(remote_vd[1]))
    THEN remote_vd[1].columns ELSE <<>>

VdOutputColumns == SubSeq(Result.columns, 3 + PbWidth, Len(Result.columns))

vd_vd_prefix == vd_prefix \o vd_prefix

(* C5 as stated: no output column name starts with "vd_vd_".                *)
C5_NoDoublePrefix ==
    Merged => \A c \in DOMAIN Result.columns :
                 ~startswith(Result.columns[c], vd_vd_prefix)

(* C5, amended: one leading "vd_" is removed from each returned column name *)
(* before "vd_" is prepended, so a returned name that starts with "vd_" is  *)
(* output unchanged, any other gets "vd_" prepended, and an output name     *)
(* starts with "vd_vd_" exactly when the returned name did.                 *)
C5_PrefixStrippedOnce ==
    Merged =>
       /\ Len(VdOutputColumns) = Len(VdReturnedColumns)
       /\ \A k \in DOMAIN VdReturnedColumns :
             /\ VdOutputColumns[k] =
                   IF startswith(VdReturnedColumns[k], vd_prefix)
                   THEN VdReturnedColumns[k]
                   ELSE vd_prefix \o VdReturnedColumns[k]
             /\ startswith(VdOutputColumns[k], vd_vd_prefix)
                   <=> startswith(VdReturnedColumns[k], vd_vd_prefix)

C5_Witness ==
    /\ Merged
    /\ \E k \in DOMAIN VdReturnedColumns :
          /\ VdReturnedColumns[k] = <<"v", "d", "_", "n">>
          /\ VdOutputColumns[k] = <<"v", "d", "_", "n">>
    /\ \E k \in DOMAIN VdReturnedColumns :
          /\ VdReturnedColumns[k] = BQ_ID
          /\ VdOutputColumns[k] = vd_prefix \o BQ_ID

(* C6: when main has returned and the connection was opened, the            *)
(* connection is closed.                                                    *)
C6_ClosedOnEveryPath ==
    (pc = "done" /\ session # "unopened") => session = "closed"

(* C7: a sheet with fewer than two columns ends main with status 1, with no *)
(* connection opened, no query issued and no output written.                *)
C7_TooFewColumnsAborts ==
    (input_df # <<>> /\ Sheet.ncols < 2) =>
       /\ pc = "done"
       /\ exit_code = <<1>>
       /\ session = "unopened"
       /\ conn = "None"
       /\ conn_log = <<>>
       /\ output_file = <<>>

C7_Witness ==
    /\ pc = "done"
    /\ input_df # <<>>
    /\ Sheet.ncols = 1
    /\ Len(Sheet.rows) > 0

(* C8: main returns 1 exactly when the load or the column check failed, the *)
(* connection could not be set up, or the output could not be written; and  *)
(* it returns 0 when the write succeeded, whatever the queries did.         *)
C8_ExitStatus ==
    pc = "done" =>
       /\ exit_code = <<1>>
             <=> (raised \in {"load", "columns", "connect", "version"}
                  \/ success = "False")
       /\ exit_code \in {<<0>>, <<1>>}
       /\ success = "True" => exit_code = <<0>>

(* C9: with duplicate keys in a fetched dataset the table is still built,   *)
(* and every row that matches a key carries the values of the last record   *)
(* fetched under that key (the secondary keys compared after trimming).     *)
C9_LastRecordWins ==
    Merged =>
       LET stored == vd_dict(voldemort_df)
       IN  \A i \in DOMAIN Result.rows :
              /\ (~empty(pitchbook_df) /\ Result.rows[i][1] \in PbKeys)
                    => PbPart(Result.rows[i]) = LastPb(Result.rows[i][1])
              /\ ~empty(voldemort_df) =>
                    LET m == matched_id(strip(Result.rows[i][2]), stored)
                    IN  truthy(m) => VdPart(Result.rows[i]) = LastVd(m)

C9_Witness ==
    /\ Merged
    /\ ~empty(voldemort_df)
    /\ \E a, b \in DOMAIN voldemort_df.rows :
          /\ a < b
          /\ voldemort_df.rows[a] # voldemort_df.rows[b]
          /\ vd_key(voldemort_df, voldemort_df.rows[a])
                = vd_key(voldemort_df, voldemort_df.rows[b])
          /\ \E i \in DOMAIN Result.rows :
                /\ matched_id(strip(Result.rows[i][2]), vd_dict(voldemort_df))
                      = vd_key(voldemort_df, voldemort_df.rows[b])
                /\ VdPart(Result.rows[i]) = voldemort_df.rows[b]
    /\ \E a, b \in DOMAIN pitchbook_df.rows :
          /\ a < b
          /\ pitchbook_df.rows[a] # pitchbook_df.rows[b]
          /\ \E i \in DOMAIN Result.rows : PbPart(Result.rows[i]) = pitchbook_df.rows[b]

IsLookup(q) == q # "version"

(* C10 as stated, the version check of connect_to_snowflake not counted: a  *)
(* run that opened and closed the connection executed exactly two queries   *)
(* on it, the primary lookup and then the secondary lookup.                 *)
C10_ExactlyTwoQueries ==
    (pc = "done" /\ session = "closed")
       => SelectSeq(Queries, IsLookup) = <<"pitchbook", "voldemort">>

\* Some identifier of the sheet's column j reaches the query's IN-list.
SomePrimaryId ==
    \E i \in DOMAIN Sheet.rows :
       ~isna(Sheet.rows[i][1]) /\ strip(Sheet.rows[i][1]) # <<>>
SomeSecondaryId ==
    \E i \in DOMAIN Sheet.rows :
       ~isna(Sheet.rows[i][2]) /\ ~NoIdentifier(remove_quotes(Sheet.rows[i][2]))

(* C10, amended: the connection is opened at most once; the queries on it   *)
(* are, in order, the version check, the primary lookup (only when some     *)
(* primary identifier is non-blank), the secondary lookup (only when some   *)
(* secondary identifier survives the filter) and a row-count test exactly      *)
(* when the secondary lookup came back empty; all of them lie between the   *)
(* connect and the close, and nothing follows the close.                    *)
C10_QueryProtocol ==
    LET n == Len(conn_log)
        q == Queries
        issued(kind) == \E k \in DOMAIN q : q[k] = kind
        after_pb == pc \in {"pb_done", "vd_done", "finally"} \/ (pc = "done" /\ conn = "conn")
        after_vd == pc \in {"vd_done", "finally"} \/ (pc = "done" /\ conn = "conn")
    IN  /\ session = "unopened" <=> conn_log = <<>>
        /\ n > 0 => conn_log[1] = Connect /\ conn_log[2] = Execute("version", <<>>)
        /\ \A k \in 2..n : conn_log[k] # Connect
        /\ \A k \in 1..n : conn_log[k] = Close => k = n
        /\ session = "closed" <=> (n > 0 /\ conn_log[n] = Close)
        /\ q \in { <<>>,
                         <<"version">>,
                         <<"version", "pitchbook">>,
                         <<"version", "voldemort">>,
                         <<"version", "voldemort", "count">>,
                         <<"version", "pitchbook", "voldemort">>,
                         <<"version", "pitchbook", "voldemort", "count">> }
        /\ after_pb => (issued("pitchbook") <=> SomePrimaryId)
        /\ after_vd =>
              /\ issued("voldemort") <=> SomeSecondaryId
              /\ issued("count") <=> (SomeSecondaryId /\ empty(voldemort_df))

C10_Witness ==
    /\ pc = "done"
    /\ session = "closed"
    /\ Queries = <<"version", "pitchbook", "voldemort", "count">>

====
